---- MODULE Spec2Model ----
(***************************************************************************)
(* Library Book Tracker API (src/models/Book.js): the Book schema and the  *)
(* eight Express route handlers over one MongoDB collection.               *)
(*                                                                         *)
(* The collection is a sequence of documents in natural (insertion) order. *)
(* JSON values are tagged records; strings are sequences of one-character  *)
(* strings, so that trimming, parsing and casting are computed.            *)
(* The createdAt / updatedAt timestamps of the schema are not modelled.    *)
(*                                                                         *)
(*   books       the collection                                            *)
(*   nextId      the next _id the datastore hands out                      *)
(*   last        the last request served and its answer                    *)
(*   served      the number of requests served                             *)
(*   backfilled  POST /books/fix-availability has been served              *)
(*   pending     the PUT requests in flight, by handler                    *)
(***************************************************************************)
EXTENDS Integers, Sequences, FiniteSets, TLC

VARIABLES books, nextId, last, served, backfilled, pending

vars == <<books, nextId, last, served, backfilled, pending>>

(***************************************************************************)
(* Bounds of the model.                                                    *)
(***************************************************************************)
\* requests served in one run
MaxRequests == 2

(***************************************************************************)
(* JSON values.                                                            *)
(***************************************************************************)
Undef == [t |-> "undef"]
Null == [t |-> "null"]
Obj == [t |-> "obj"]
NaN == [t |-> "nan"]
CastError == [t |-> "casterror"]
Str(s) == [t |-> "str", v |-> s]
Num(n) == [t |-> "num", v |-> n]
Bool(b) == [t |-> "bool", v |-> b]

IsStr(x) == x.t = "str"
IsNum(x) == x.t = "num"
IsBool(x) == x.t = "bool"
IsNullish(x) == x.t \in {"undef", "null"}

\* JavaScript truthiness, as used by `genre && { genre }`
Truthy(x) ==
    CASE x.t = "undef" -> FALSE
      [] x.t = "null" -> FALSE
      [] x.t = "nan" -> FALSE
      [] x.t = "bool" -> x.v
      [] x.t = "num" -> x.v # 0
      [] x.t = "str" -> Len(x.v) > 0
      [] OTHER -> TRUE

(***************************************************************************)
(* Strings and numbers.                                                    *)
(***************************************************************************)
Digits == <<"0", "1", "2", "3", "4", "5", "6", "7", "8", "9">>
IsDigit(c) == \E i \in 1..Len(Digits) : Digits[i] = c
DigitVal(c) == (CHOOSE i \in 1..Len(Digits) : Digits[i] = c) - 1
IsSpace(c) == c = " "

RECURSIVE TrimLeft(_)
TrimLeft(s) ==
    IF s # <<>> /\ IsSpace(Head(s)) THEN TrimLeft(Tail(s)) ELSE s

RECURSIVE TrimRight(_)
TrimRight(s) ==
    IF s # <<>> /\ IsSpace(s[Len(s)])
    THEN TrimRight(SubSeq(s, 1, Len(s) - 1))
    ELSE s

\* String.prototype.trim
Trim(s) == TrimRight(TrimLeft(s))

\* the longest prefix of s made of decimal digits
RECURSIVE DigitPrefix(_)
DigitPrefix(s) ==
    IF s # <<>> /\ IsDigit(Head(s))
    THEN <<Head(s)>> \o DigitPrefix(Tail(s))
    ELSE <<>>

\* the value of a sequence of decimal digits
RECURSIVE DigitsVal(_)
DigitsVal(s) ==
    IF s = <<>> THEN 0
    ELSE 10 * DigitsVal(SubSeq(s, 1, Len(s) - 1)) + DigitVal(s[Len(s)])

\* String(n) for an integer n
RECURSIVE NatToStr(_)
NatToStr(n) ==
    IF n < 10 THEN <<Digits[n + 1]>>
    ELSE NatToStr(n \div 10) \o <<Digits[(n % 10) + 1]>>

NumToStr(n) == IF n < 0 THEN <<"-">> \o NatToStr(0 - n) ELSE NatToStr(n)

\* parseInt(s): leading white space, a sign, then the longest prefix of
\* decimal digits (the segments sent have no 0x prefix)
ParseInt(s) ==
    LET u == TrimLeft(s)
        neg == u # <<>> /\ Head(u) = "-"
        w == IF u # <<>> /\ Head(u) \in {"-", "+"} THEN Tail(u) ELSE u
        d == DigitPrefix(w)
    IN  IF d = <<>> THEN NaN
        ELSE Num(IF neg THEN 0 - DigitsVal(d) ELSE DigitsVal(d))

\* Number(s) on a string: white space trimmed, "" is 0, a decimal integer
\* is its value, anything else is NaN
StrToNumber(s) ==
    LET u == Trim(s)
        neg == u # <<>> /\ Head(u) = "-"
        w == IF u # <<>> /\ Head(u) \in {"-", "+"} THEN Tail(u) ELSE u
    IN  IF u = <<>> THEN Num(0)
        ELSE IF w # <<>> /\ DigitPrefix(w) = w
             THEN Num(IF neg THEN 0 - DigitsVal(w) ELSE DigitsVal(w))
             ELSE NaN

(***************************************************************************)
(* The Book schema (mongoose.Schema): casting, setters, validators.        *)
(***************************************************************************)
TextFields == {"title", "author", "genre"}
Fields == TextFields \cup {"publicationYear", "available"}

\* the cast of a String path
CastString(x) ==
    CASE x.t = "str" -> x
      [] x.t = "num" -> Str(NumToStr(x.v))
      [] x.t = "bool" ->
            Str(IF x.v THEN <<"t", "r", "u", "e">> ELSE <<"f", "a", "l", "s", "e">>)
      [] IsNullish(x) -> x
      [] OTHER -> CastError

\* a String path with trim: true: the trim setter, then the cast
SetString(x) ==
    LET c == CastString(x)
    IN  IF IsStr(c) THEN Str(Trim(c.v)) ELSE c

\* the cast of a Number path
CastNumber(x) ==
    CASE IsNullish(x) -> x
      [] x.t = "num" -> x
      [] x.t = "bool" -> Num(IF x.v THEN 1 ELSE 0)
      [] x.t = "str" ->
            IF x.v = <<>> THEN Null
            ELSE IF StrToNumber(x.v) = NaN THEN CastError ELSE StrToNumber(x.v)
      [] OTHER -> CastError

\* the cast of a Boolean path
CastBoolean(x) ==
    CASE x.t = "bool" -> x
      [] x \in {Num(1), Str(<<"1">>), Str(<<"t", "r", "u", "e">>),
                Str(<<"y", "e", "s">>)} -> Bool(TRUE)
      [] x \in {Num(0), Str(<<"0">>), Str(<<"f", "a", "l", "s", "e">>),
                Str(<<"n", "o">>)} -> Bool(FALSE)
      [] IsNullish(x) -> x
      [] OTHER -> CastError

\* the cast of one path of the schema
CastPath(f, x) ==
    CASE f \in TextFields -> SetString(x)
      [] f = "publicationYear" -> CastNumber(x)
      [] OTHER -> CastBoolean(x)

\* a Number path that is not required
NotRequired(x) == TRUE

\* required: true on a String path / on a Number path
RequiredString(x) == IsStr(x) /\ Len(x.v) > 0
RequiredNumber(x) == IsNum(x)

\* a default of false in place of true
DefaultUnavailable(x) == IF x = Undef THEN Bool(FALSE) ELSE x

\* default: true on available, applied where the path is undefined
DefaultAvailable(x) == IF x = Undef THEN Bool(TRUE) ELSE x

\* new Book(obj): every path cast, the default applied
NewBook(obj) ==
    [f \in Fields |->
        IF f = "available" THEN DefaultAvailable(CastPath(f, obj[f]))
        ELSE CastPath(f, obj[f])]

\* the validation run by save(): no cast error, required paths present
Validates(d) ==
    /\ \A f \in Fields : d[f] # CastError
    /\ \A f \in TextFields : RequiredString(d[f])
    /\ RequiredNumber(d.publicationYear)

\* a document as stored: the paths of the schema and its _id
Stored(id, d) ==
    [_id |-> id, title |-> d.title, author |-> d.author, genre |-> d.genre,
     publicationYear |-> d.publicationYear, available |-> d.available]

\* a document as loaded from the collection: defaults applied
Hydrate(b) == [b EXCEPT !.available = DefaultAvailable(@)]

RECURSIVE HydrateAll(_)
HydrateAll(bs) ==
    IF bs = <<>> THEN <<>> ELSE <<Hydrate(Head(bs))>> \o HydrateAll(Tail(bs))

(***************************************************************************)
(* The collection: the operations of the Book model.                       *)
(***************************************************************************)
Ids(bs) == {bs[i]._id : i \in 1..Len(bs)}

\* the position of the document with this _id, 0 if there is none
IndexOf(bs, id) ==
    IF \E i \in 1..Len(bs) : bs[i]._id = id
    THEN CHOOSE i \in 1..Len(bs) :
            bs[i]._id = id /\ \A j \in 1..(i - 1) : bs[j]._id # id
    ELSE 0

\* a replacement of the document in place of $set: keys the update lacks go
ApplyReplace(b, upd) ==
    [k \in DOMAIN b |-> IF k \in Fields THEN upd[k] ELSE b[k]]

\* $set: the keys of the update replace the document's, the rest stay
ApplySet(b, upd) ==
    [k \in DOMAIN b |->
        IF k \in Fields /\ upd[k] # Undef THEN upd[k] ELSE b[k]]

\* Book.updateOne({ _id: id }, { $set: upd })
UpdateOne(bs, id, upd) ==
    LET i == IndexOf(bs, id)
    IN  IF i = 0 THEN bs ELSE [bs EXCEPT ![i] = ApplySet(@, upd)]

\* deleteOne with a filter that names no path of the schema: the first
\* document goes, whatever the id
DeleteFirst(bs, id) == IF bs = <<>> THEN bs ELSE Tail(bs)

\* Book.deleteOne({ _id: id })
DeleteOne(bs, id) ==
    LET i == IndexOf(bs, id)
    IN  IF i = 0 THEN bs
        ELSE SubSeq(bs, 1, i - 1) \o SubSeq(bs, i + 1, Len(bs))

\* an empty filter in place of { available: { $exists: false } }
MatchesAny(b) == TRUE

\* the filter { available: { $exists: false } }
LacksAvailable(b) == b.available = Undef

\* Book.updateMany({ available: { $exists: false } }, { $set: { available: true } })
FixAll(bs) ==
    [i \in 1..Len(bs) |->
        IF LacksAvailable(bs[i]) THEN [bs[i] EXCEPT !.available = Bool(TRUE)]
        ELSE bs[i]]

\* $lte in place of $lt
BeforeOrIn(b, year) == IsNum(b.publicationYear) /\ b.publicationYear.v <= year

\* the filter { publicationYear: { $lt: year } }
Before(b, year) == IsNum(b.publicationYear) /\ b.publicationYear.v < year

\* available taken like the other keys, when truthy
SetDocumentTruthy(body) ==
    [f \in Fields |-> IF Truthy(body[f]) THEN body[f] ELSE Undef]

\* the update document of PUT: the keys the body gives a truthy value,
\* available when it is a boolean
SetDocument(body) ==
    [f \in Fields |->
        IF f = "available"
        THEN (IF IsBool(body[f]) THEN body[f] ELSE Undef)
        ELSE (IF Truthy(body[f]) THEN body[f] ELSE Undef)]

\* the update document sent as it is, no cast and no setter
CastUpdateRaw(upd) == upd

\* the update document cast by the schema
CastUpdate(upd) ==
    [f \in Fields |-> IF upd[f] = Undef THEN Undef ELSE CastPath(f, upd[f])]

UpdateCasts(upd) == \A f \in Fields : CastUpdate(upd)[f] # CastError

(***************************************************************************)
(* Requests: path parameters and JSON bodies.                              *)
(***************************************************************************)
\* the :id segment: a well-formed ObjectId, or one that does not cast
Oid(n) == [t |-> "oid", v |-> n]
BadId == [t |-> "badid"]
CastObjectId(x) == IF x.t = "oid" THEN Num(x.v) ELSE CastError

\* the ids asked for: every stored document's, one that no document has,
\* one that is malformed
IdParams == {Oid(n) : n \in Ids(books) \cup {nextId}} \cup {BadId}

\* the values a body gives a key: absent, null, falsy and truthy ones, padded
\* strings, values that need a cast and values that have none
TextInputs ==
    {Undef, Null, Str(<<>>), Str(<<" ">>), Str(<<"a">>), Str(<<" ", "b">>),
     Num(0), Bool(FALSE), Obj}
YearInputs ==
    {Undef, Null, Num(0), Num(1), Num(2), Str(<<"2">>), Bool(FALSE), Obj}
AvailInputs == {Undef, Null, Bool(TRUE), Bool(FALSE), Num(1), Obj}

InputsOf(f) ==
    CASE f \in TextFields -> TextInputs
      [] f = "publicationYear" -> YearInputs
      [] OTHER -> AvailInputs

\* the body that sets no key, and a body that sets every required key
EmptyBody == [f \in Fields |-> Undef]
BaseBody ==
    [title |-> Str(<<"a">>), author |-> Str(<<"a">>), genre |-> Str(<<"a">>),
     publicationYear |-> Num(1), available |-> Undef]

\* the bodies that differ from b in one key at most
OneKeyFrom(b) ==
    {b} \cup UNION {{[b EXCEPT ![f] = v] : v \in InputsOf(f)} : f \in Fields}

\* a body whose every key needs its cast, and bodies with two keys to note
PaddedBody ==
    [title |-> Str(<<" ", "b">>), author |-> Str(<<" ", "b">>),
     genre |-> Str(<<" ", "b">>), publicationYear |-> Str(<<"2">>),
     available |-> Bool(FALSE)]
TwoKeyBodies ==
    {[EmptyBody EXCEPT !.genre = Str(<<" ", "b">>), !.publicationYear = Obj],
     [EmptyBody EXCEPT !.title = Str(<<" ", "b">>), !.available = Bool(FALSE)],
     [EmptyBody EXCEPT !.author = Obj, !.available = Bool(TRUE)]}

\* the bodies sent to POST /books and to PUT /books/:id
PostBodies ==
    OneKeyFrom(BaseBody) \cup
    {PaddedBody, [BaseBody EXCEPT !.title = Undef, !.genre = Str(<<" ">>)]}
PutBodies == OneKeyFrom(EmptyBody) \cup TwoKeyBodies \cup {PaddedBody}

\* the bodies sent with an id that no document has or that is malformed
ProbeBodies == {EmptyBody, PaddedBody} \cup TwoKeyBodies

\* the bodies sent to PUT /books/:id with this id
PutBodiesFor(id) ==
    IF id # BadId /\ id.v \in Ids(books) THEN PutBodies ELSE ProbeBodies

\* the :genre and :title segments, the :year segments
TextSegments == {<<"a">>, <<" ", "b">>, <<"b", " ">>}
YearSegments == {<<"0">>, <<"1">>, <<"2">>, <<"3">>, <<"-", "1">>, <<"1", "a">>, <<"a">>}

(***************************************************************************)
(* State.                                                                  *)
(***************************************************************************)
Handlers == {1, 2}
Idle == [st |-> "idle"]

\* what the last request was and what it was answered: the status, the count
\* of the acknowledgment (matchedCount, deletedCount) or of the documents
\* answered, and the documents
Response(op, id, seg, body, status, n, docs) ==
    [op |-> op, id |-> id, seg |-> seg, body |-> body, status |-> status,
     n |-> n, docs |-> docs]

NoRequest == Response("none", Undef, <<>>, EmptyBody, 0, 0, <<>>)

\* a document written before the schema had the available path
LegacyBook(i) ==
    [_id |-> i,
     title |-> Str(IF i % 2 = 1 THEN <<"a">> ELSE <<"b">>),
     author |-> Str(<<"a">>),
     genre |-> Str(IF i % 2 = 1 THEN <<"a">> ELSE <<"b">>),
     publicationYear |-> Num(i % 3),
     available |-> Undef]

LegacyBooks == <<LegacyBook(1), LegacyBook(2)>>

\* the collection the server finds at startup: empty, or legacy documents
Init ==
    /\ \E k \in 0..Len(LegacyBooks) :
          /\ books = SubSeq(LegacyBooks, 1, k)
          /\ nextId = k + 1
    /\ last = NoRequest
    /\ served = 0
    /\ backfilled = FALSE
    /\ pending = [h \in Handlers |-> Idle]

InitEmpty ==
    /\ books = <<>>
    /\ nextId = 1
    /\ last = NoRequest
    /\ served = 0
    /\ backfilled = FALSE
    /\ pending = [h \in Handlers |-> Idle]

(***************************************************************************)
(* The route handlers.  Each does one datastore call and answers.          *)
(***************************************************************************)
\* POST /books
AddBook(body) ==
    LET d == NewBook(body)
    IN  /\ served < MaxRequests
        /\ IF Validates(d)
           THEN /\ books' = Append(books, Stored(nextId, d))
                /\ nextId' = nextId + 1
                /\ last' = Response("post", Undef, <<>>, body, 201, 1,
                                    <<Stored(nextId, d)>>)
           ELSE /\ last' = Response("post", Undef, <<>>, body, 500, 0, <<>>)
                /\ UNCHANGED <<books, nextId>>
        /\ served' = served + 1
        /\ UNCHANGED <<backfilled, pending>>

\* GET /books
GetBooks ==
    /\ served < MaxRequests
    /\ last' = Response("list", Undef, <<>>, EmptyBody, 200, Len(books),
                        HydrateAll(books))
    /\ served' = served + 1
    /\ UNCHANGED <<books, nextId, backfilled, pending>>

\* GET /books/genre/:genre
GetByGenre(seg) ==
    LET genre == SetString(Str(seg))
        Match(b) == b.genre = genre
        found == SelectSeq(books, Match)
    IN  /\ served < MaxRequests
        /\ last' = Response("genre", Undef, seg, EmptyBody, 200, Len(found),
                            HydrateAll(found))
        /\ served' = served + 1
        /\ UNCHANGED <<books, nextId, backfilled, pending>>

\* GET /books/title/:title
GetByTitle(seg) ==
    LET title == SetString(Str(seg))
        Match(b) == b.title = title
        found == SelectSeq(books, Match)
    IN  /\ served < MaxRequests
        /\ IF found = <<>>
           THEN last' = Response("title", Undef, seg, EmptyBody, 404, 0, <<>>)
           ELSE last' = Response("title", Undef, seg, EmptyBody, 200, 1,
                                 <<Hydrate(Head(found))>>)
        /\ served' = served + 1
        /\ UNCHANGED <<books, nextId, backfilled, pending>>

\* PUT /books/:id
PutBook(id, body) ==
    LET upd == SetDocument(body)
        oid == CastObjectId(id)
    IN  /\ served < MaxRequests
        /\ IF oid = CastError \/ ~UpdateCasts(upd)
           THEN /\ last' = Response("put", id, <<>>, body, 500, 0, <<>>)
                /\ UNCHANGED books
           ELSE /\ books' = UpdateOne(books, oid.v, CastUpdate(upd))
                /\ last' = Response("put", id, <<>>, body, 200,
                                    IF oid.v \in Ids(books) THEN 1 ELSE 0, <<>>)
        /\ served' = served + 1
        /\ UNCHANGED <<nextId, backfilled, pending>>

\* DELETE /books/:id
DeleteBook(id) ==
    LET oid == CastObjectId(id)
    IN  /\ served < MaxRequests
        /\ IF oid = CastError
           THEN /\ last' = Response("delete", id, <<>>, EmptyBody, 500, 0, <<>>)
                /\ UNCHANGED books
           ELSE /\ books' = DeleteOne(books, oid.v)
                /\ last' = Response("delete", id, <<>>, EmptyBody, 200,
                                    IF oid.v \in Ids(books) THEN 1 ELSE 0, <<>>)
        /\ served' = served + 1
        /\ UNCHANGED <<nextId, backfilled, pending>>

\* POST /books/fix-availability
FixAvailability ==
    LET matched == SelectSeq(books, LacksAvailable)
    IN  /\ served < MaxRequests
        /\ books' = FixAll(books)
        /\ last' = Response("fix", Undef, <<>>, EmptyBody, 200, Len(matched), <<>>)
        /\ backfilled' = TRUE
        /\ served' = served + 1
        /\ UNCHANGED <<nextId, pending>>

\* GET /books/before/:year
GetBefore(seg) ==
    LET year == ParseInt(seg)
        Match(b) == Before(b, year.v)
        found == SelectSeq(books, Match)
    IN  /\ served < MaxRequests
        /\ IF year = NaN
           THEN last' = Response("before", Undef, seg, EmptyBody, 500, 0, <<>>)
           ELSE last' = Response("before", Undef, seg, EmptyBody, 200, Len(found),
                                 HydrateAll(found))
        /\ served' = served + 1
        /\ UNCHANGED <<books, nextId, backfilled, pending>>

Next ==
    \/ \E body \in PostBodies : AddBook(body)
    \/ GetBooks
    \/ \E seg \in TextSegments : GetByGenre(seg)
    \/ \E seg \in TextSegments : GetByTitle(seg)
    \/ \E id \in IdParams : \E body \in PutBodiesFor(id) : PutBook(id, body)
    \/ \E id \in IdParams : DeleteBook(id)
    \/ FixAvailability
    \/ \E seg \in YearSegments : GetBefore(seg)

Spec == Init /\ [][Next]_vars

SpecEmpty == InitEmpty /\ [][Next]_vars

(***************************************************************************)
(* PUT /books/:id as the event loop runs it: the handler builds and sends   *)
(* its updateOne and awaits; the datastore applies the update to the       *)
(* document in one step; handlers of other requests run in between.        *)
(***************************************************************************)
Sent(id, body, upd) == [st |-> "sent", id |-> id, body |-> body, upd |-> upd]
Done(id, body, status, n) ==
    [st |-> "done", id |-> id, body |-> body, status |-> status, n |-> n]

\* two books created by POST /books
SeedBooks ==
    <<Stored(1, NewBook(BaseBody)), Stored(2, NewBook(PaddedBody))>>

InitConc ==
    /\ books = SeedBooks
    /\ nextId = Len(SeedBooks) + 1
    /\ last = NoRequest
    /\ served = 0
    /\ backfilled = FALSE
    /\ pending = [h \in Handlers |-> Idle]

\* the handler up to its await: the update document built, cast and sent
PutReceive(h, id, body) ==
    LET upd == SetDocument(body)
        oid == CastObjectId(id)
    IN  /\ pending[h] = Idle
        /\ IF oid = CastError \/ ~UpdateCasts(upd)
           THEN pending' = [pending EXCEPT ![h] = Done(id, body, 500, 0)]
           ELSE pending' = [pending EXCEPT ![h] = Sent(id, body, CastUpdate(upd))]
        /\ UNCHANGED <<books, nextId, last, served, backfilled>>

\* the datastore applies the update; the handler resumes and answers
PutApply(h) ==
    /\ pending[h].st = "sent"
    /\ books' = UpdateOne(books, pending[h].id.v, pending[h].upd)
    /\ pending' = [pending EXCEPT ![h] =
                      Done(pending[h].id, pending[h].body, 200,
                           IF pending[h].id.v \in Ids(books) THEN 1 ELSE 0)]
    /\ UNCHANGED <<nextId, last, served, backfilled>>

NextConc ==
    \/ \E h \in Handlers : \E id \in IdParams : \E body \in PutBodiesFor(id) :
          PutReceive(h, id, body)
    \/ \E h \in Handlers : PutApply(h)

SpecConc == InitConc /\ [][NextConc]_vars

(***************************************************************************)
(* Properties.                                                             *)
(***************************************************************************)
\* the request served by this step
Serves(op) == served' = served + 1 /\ last'.op = op

\* the documents other than the one at position i are what they were
OthersUnchanged(i) ==
    /\ Len(books') = Len(books)
    /\ \A j \in 1..Len(books) : j # i => books'[j] = books[j]

\* the body sets genre, to a truthy value, and no other key
OnlyGenre(body) ==
    /\ Truthy(body.genre)
    /\ \A f \in Fields \ {"genre"} : body[f] = Undef

Supplied(body, f) ==
    IF f = "available" THEN body[f] \in {Bool(TRUE), Bool(FALSE)}
    ELSE Truthy(body[f])

Lacking(bs) == Cardinality({i \in 1..Len(bs) : bs[i].available = Undef})

\* C3: a run of the backfill sets available = true on exactly the documents
\* that lacked the field and changes no other document; a second run right
\* after it matches and modifies nothing and leaves the collection as it is.
BackfillIdempotent ==
    [][Serves("fix") =>
          /\ last'.status = 200
          /\ last'.n = Lacking(books)
          /\ Len(books') = Len(books)
          /\ \A i \in 1..Len(books) :
                IF books[i].available = Undef
                THEN books'[i] = [books[i] EXCEPT !.available = Bool(TRUE)]
                ELSE books'[i] = books[i]
          /\ last.op = "fix" => (last'.n = 0 /\ books' = books)]_vars

\* the backfill has run twice over two legacy documents
BackfillIdempotentWitness ==
    /\ last.op = "fix" /\ last.status = 200 /\ last.n = 0
    /\ served = 2
    /\ books = [i \in 1..2 |-> [LegacyBook(i) EXCEPT !.available = Bool(TRUE)]]

\* the decimal numerals of the years asked for
YearsAsked == -1..3

\* C4: GET /books/before/Y with Y an integer answers 200 with exactly the
\* documents whose publicationYear is less than Y, in the collection's order:
\* none with publicationYear = Y, none with a greater one.
BeforeYearStrict ==
    \A y \in YearsAsked :
       (last.op = "before" /\ last.seg = NumToStr(y)) =>
          /\ last.status = 200
          /\ \A i \in 1..Len(books) :
                (books[i].publicationYear.v < y)
                   <=> (\E j \in 1..Len(last.docs) : last.docs[j]._id = books[i]._id)
          /\ \A j \in 1..Len(last.docs) :
                /\ \E i \in 1..Len(books) : last.docs[j] = Hydrate(books[i])
                /\ last.docs[j].publicationYear.v # y
                /\ ~(last.docs[j].publicationYear.v > y)
          /\ last.n = Len(last.docs)

\* a query before year 2 over documents of 1 and 2 has answered the first
BeforeYearStrictWitness ==
    /\ last.op = "before" /\ last.status = 200 /\ last.seg = <<"2">>
    /\ Len(books) = 2
    /\ books[1].publicationYear = Num(1)
    /\ books[2].publicationYear = Num(2)
    /\ last.docs = <<Hydrate(books[1])>>

\* C5: DELETE with a well-formed id answers 200: deletedCount = 0 and the
\* collection unchanged when no document has the id, deletedCount = 1 and
\* exactly that document removed when one has.
DeleteByIdOnly ==
    [][\A id \in IdParams :
          (Serves("delete") /\ last'.id = id /\ id # BadId) =>
             LET Other(b) == b._id # id.v
             IN  /\ last'.status = 200
                 /\ books' = SelectSeq(books, Other)
                 /\ IF id.v \in Ids(books)
                    THEN last'.n = 1 /\ Len(books') = Len(books) - 1
                    ELSE last'.n = 0 /\ books' = books]_vars

\* a DELETE of an id no document has was answered 200 with a count of 0
DeleteByIdOnlyWitness ==
    /\ last.op = "delete" /\ last.status = 200 /\ last.n = 0
    /\ last.id # BadId
    /\ books # <<>>
    /\ last.id.v \notin Ids(books)
    /\ served = 1

\* the step fetches by title the title the preceding POST created a book with
FetchesCreated ==
    /\ last.op = "post" /\ last.status = 201
    /\ IsStr(last.body.title)
    /\ Serves("title") /\ last'.seg = last.body.title.v

\* no document but the one just created has the title asked for, as sent or
\* trimmed
NoOtherTitled(seg) ==
    \A i \in 1..Len(books) :
       books[i].title \in {Str(seg), Str(Trim(seg))}
          => books[i]._id = last.docs[1]._id

\* C6 as stated: a book created with all required fields and then fetched by
\* the title submitted comes back with 200, the title, author, genre,
\* publicationYear and available submitted (available = true when omitted)
\* and a generated id.
CreateThenFetchAsStated ==
    [][(FetchesCreated /\ NoOtherTitled(last'.seg)) =>
          /\ last'.status = 200
          /\ last'.docs[1]._id = last.docs[1]._id
          /\ \A f \in Fields \ {"available"} : last'.docs[1][f] = last.body[f]
          /\ last'.docs[1].available =
                (IF last.body.available = Undef THEN Bool(TRUE)
                 ELSE last.body.available)]_vars

\* C6 amended: a book created with all required fields and then fetched by
\* the title submitted comes back with 200 and a generated id; its title,
\* author and genre are the submitted ones cast to strings and trimmed, its
\* publicationYear the submitted one cast to a number, its available the
\* submitted one cast to a boolean (null stays null), true when omitted.
CreateThenFetch ==
    [][(FetchesCreated /\ NoOtherTitled(last'.seg)) =>
          /\ last'.status = 200
          /\ Len(last'.docs) = 1
          /\ last'.docs[1]._id = last.docs[1]._id
          /\ last'.docs[1]._id = nextId - 1
          /\ \A f \in TextFields :
                last'.docs[1][f] = Str(Trim(CastString(last.body[f]).v))
          /\ last'.docs[1].publicationYear = CastNumber(last.body.publicationYear)
          /\ last'.docs[1].available =
                (IF last.body.available = Undef THEN Bool(TRUE)
                 ELSE CastBoolean(last.body.available))]_vars

\* a book posted with a padded title beside a legacy document was fetched by
\* that title
CreateThenFetchWitness ==
    /\ last.op = "title" /\ last.status = 200 /\ last.seg = <<" ", "b">>
    /\ served = 2 /\ nextId = 3
    /\ books = <<LegacyBook(1),
                 Stored(2, NewBook([BaseBody EXCEPT !.title = Str(<<" ", "b">>)]))>>
    /\ last.docs = <<books[2]>>
    /\ books[2].title = Str(<<"b">>) /\ books[2].available = Bool(TRUE)

\* the body lacks a required key, or gives a title, author or genre that is
\* empty once trimmed
LacksRequired(body) ==
    \/ \E f \in TextFields \cup {"publicationYear"} : body[f] = Undef
    \/ \E f \in TextFields : IsStr(body[f]) /\ Trim(body[f].v) = <<>>

\* C9: a POST /books whose body lacks a required field, or gives a title,
\* author or genre empty after trimming, answers 500, never 201, and stores
\* nothing.
InvalidCreateRejected ==
    [][(Serves("post") /\ LacksRequired(last'.body)) =>
          /\ last'.status = 500
          /\ last'.docs = <<>>
          /\ books' = books
          /\ nextId' = nextId]_vars

\* a POST with a white-space title was answered 500 over a collection that
\* holds a document
InvalidCreateRejectedWitness ==
    /\ last.op = "post" /\ last.status = 500
    /\ last.body = [BaseBody EXCEPT !.title = Str(<<" ">>)]
    /\ Len(books) = 1 /\ nextId = 2

\* C7 as stated: every stored book has a non-empty title, author and genre
\* and a publicationYear, whatever requests were served since the empty
\* collection.
RequiredFieldsKept ==
    \A i \in 1..Len(books) :
       /\ \A f \in TextFields : IsStr(books[i][f]) /\ books[i][f].v # <<>>
       /\ IsNum(books[i].publicationYear)

\* C8 as stated: once the backfill has run, every stored book has an
\* available field and its value is a boolean.
AvailableBooleanAfterBackfill ==
    backfilled =>
       \A i \in 1..Len(books) : books[i].available \in {Bool(TRUE), Bool(FALSE)}

\* what a PUT with this body writes: the cast value of each key it supplies,
\* nothing when one of them does not cast
Writes(body) ==
    IF \A f \in Fields : Supplied(body, f) => CastPath(f, body[f]) # CastError
    THEN [f \in Fields |-> IF Supplied(body, f) THEN CastPath(f, body[f]) ELSE Undef]
    ELSE [f \in Fields |-> Undef]

\* the document b after the update w
After(b, w) ==
    [k \in DOMAIN b |-> IF k \in Fields /\ w[k] # Undef THEN w[k] ELSE b[k]]

\* C10: when two PUTs on one record were served concurrently, the record is
\* what the two updates leave when applied one after the other in some
\* order: a field both write holds one of the two values, a field one writes
\* holds that value, a field neither writes is what it was; the other
\* records are unchanged.
ConcurrentPutsSerialize ==
    \A i \in 1..Len(SeedBooks) :
       (/\ \A h \in Handlers : pending[h].st = "done"
        /\ \A h \in Handlers : pending[h].id = Oid(SeedBooks[i]._id)) =>
          LET w1 == Writes(pending[1].body)
              w2 == Writes(pending[2].body)
          IN  /\ Len(books) = Len(SeedBooks)
              /\ \A j \in 1..Len(SeedBooks) : j # i => books[j] = SeedBooks[j]
              /\ books[i] \in {After(After(SeedBooks[i], w1), w2),
                               After(After(SeedBooks[i], w2), w1)}
              /\ \A f \in Fields :
                    /\ (w1[f] = Undef /\ w2[f] = Undef)
                          => books[i][f] = SeedBooks[i][f]
                    /\ (w1[f] # Undef /\ w2[f] = Undef) => books[i][f] = w1[f]
                    /\ (w1[f] = Undef /\ w2[f] # Undef) => books[i][f] = w2[f]
                    /\ (w1[f] # Undef /\ w2[f] # Undef)
                          => books[i][f] \in {w1[f], w2[f]}

\* two PUTs on the first book, one of its genre and one of its availability,
\* were both answered, and both writes are in the record
ConcurrentPutsSerializeWitness ==
    /\ pending[1] = Done(Oid(1), [EmptyBody EXCEPT !.genre = Str(<<" ", "b">>)], 200, 1)
    /\ pending[2] = Done(Oid(1), [EmptyBody EXCEPT !.available = Bool(FALSE)], 200, 1)
    /\ books[1].genre = Str(<<"b">>)
    /\ books[1].available = Bool(FALSE)
    /\ books[1].title = SeedBooks[1].title

====
